---- MODULE Spec2Model ----
(***************************************************************************)
(* Ownership and lifetime of vehicle_prop_value_t / vehicle_prop_config_t  *)
(* as managed by libvehiclenetwork/include/VehicleNetworkDataTypes.h:      *)
(* VehiclePropertiesUtil, VehiclePropertiesHolder, VehiclePropValueUtil,   *)
(* ScopedVehiclePropValue and VehiclePropValueListHolder.                  *)
(*                                                                         *)
(* Memory is modelled explicitly: byte buffers live at addresses, records  *)
(* live in slots, and every new / delete / delete[] of the header is a     *)
(* step on that memory.  A delete[] of an address that is not allocated, a *)
(* read of a freed record or of a buffer that is too short is undefined    *)
(* behaviour: the process enters the state "undefined", about which        *)
(* nothing more is known.                                                  *)
(***************************************************************************)
EXTENDS Integers, Sequences, FiniteSets, TLC

\* ------------------------------------------------------------------ bounds
NumRec == 2
NumAddr == 2
MaxLen == 1
NumHandle == 2

\* ------------------------------------------------------- program constants
NULL == 0
NO_ERROR == 0
NO_MEMORY == -12

\* value_type tags of hardware/vehicle.h; the zero tag is what memset leaves
VEHICLE_VALUE_TYPE_SHOUD_NOT_USE == "VEHICLE_VALUE_TYPE_SHOUD_NOT_USE"
VEHICLE_VALUE_TYPE_STRING == "VEHICLE_VALUE_TYPE_STRING"
VEHICLE_VALUE_TYPE_BYTES == "VEHICLE_VALUE_TYPE_BYTES"
VEHICLE_VALUE_TYPE_INT32 == "VEHICLE_VALUE_TYPE_INT32"

\* the two case labels of the switch statements on value_type
BufferKinds == {VEHICLE_VALUE_TYPE_BYTES, VEHICLE_VALUE_TYPE_STRING}

Rec == 1..NumRec
Addr == 1..NumAddr
Cfg == 1..NumRec
Handle == 1..NumHandle
\* byte values: contents are only copied and compared, two values tell
\* equal contents from different ones
Byte == {0, 1}

\* slots are names of objects, not addresses: odd slots name the values
\* the caller produces, even slots the objects created through this header
\* (a ScopedVehiclePropValue, the record allocVehicleProp returns)
CallerSlots == {r \in Rec : r % 2 = 1}

HeaderSlots == {r \in Rec : r % 2 = 0}

\* inputs: the contents the caller fills a buffer of length n with
Filled(n, b) == [k \in 1..n |-> b]

\* inputs: the property and timestamp of the values the caller produces
MetaOf(t) ==
    IF t = VEHICLE_VALUE_TYPE_BYTES THEN [prop |-> 2, timestamp |-> 1]
    ELSE [prop |-> 1, timestamp |-> 2]

\* inputs: raw bits of a scalar payload, read through the union as
\* (str_value.data, str_value.len)
ScalarBits == {<<0, 0>>, <<1, 1>>}

\* the exit paths of a scope holding a ScopedVehiclePropValue
ExitPaths == {"normal return", "early return", "error"}

VARIABLES
    mode,   \* build: "assert" (ASSERT_ON_NO_MEMORY defined) or "propagate"
    proc,   \* "running", "aborted" (assert failed) or "undefined"
    vals,   \* vehicle_prop_value_t records: storage state and fields
    heap,   \* uint8_t[] buffers: address -> [live, bytes]
    cfgs,   \* vehicle_prop_config_t records: storage state and config_string
    list,   \* the List a holder wraps: storage state and elements
    holder, \* the list holder: class, state, fields, strong count
    sp,     \* the sp<> handles that hold a strong reference to the holder
    origin, \* per record: the record it was last deep-copied from, or NULL
    last    \* the last call: operation, arguments, result, new/delete log

vars == <<mode, proc, vals, heap, cfgs, list, holder, sp, origin, last>>

\* ------------------------------------------------------------------ memory
\* vehicle_prop_value_t after memset(&value, 0, sizeof(value)) / value-init
ZeroFields(st) ==
    [st |-> st, value_type |-> VEHICLE_VALUE_TYPE_SHOUD_NOT_USE,
     prop |-> 0, timestamp |-> 0, data |-> NULL, len |-> 0]

FreeBuf == [live |-> FALSE, bytes |-> <<>>]

NoConfig(st) == [st |-> st, data |-> NULL, len |-> 0]

NoList(st) == [st |-> st, elems |-> <<>>]

\* storage states in which a record may be read and written
LiveSt == {"stack", "scoped", "heap"}

\* the memory a call starts from
Begin ==
    [vals |-> vals, heap |-> heap, cfgs |-> cfgs, list |-> list, proc |-> proc,
     ret |-> NO_ERROR, log |-> <<>>]

Running(m) == m.proc = "running"

Undefined(m) == [m EXCEPT !.proc = "undefined"]

FreeAddrs(m) == {a \in Addr : ~m.heap[a].live}

\* the address the allocator answers next (first fit; NULL: heap exhausted)
NextAddr(m) ==
    IF FreeAddrs(m) = {} THEN NULL
    ELSE CHOOSE a \in FreeAddrs(m) : \A b \in FreeAddrs(m) : a <= b

FreeRecs(m) == {r \in Rec : m.vals[r].st = "none"}

\* live allocations: buffers, heap value records, heap config records and a
\* heap List
LiveBuffers(m) == {a \in Addr : m.heap[a].live}

LiveAllocsOf(m) ==
    Cardinality(LiveBuffers(m))
    + Cardinality({r \in Rec : m.vals[r].st = "heap"})
    + Cardinality({c \in Cfg : m.cfgs[c].st = "heap"})
    + (IF m.list.st = "heap" THEN 1 ELSE 0)

LiveAllocs == LiveAllocsOf(Begin)

\* delete[] p
DeleteArray(m, p) ==
    IF ~Running(m) \/ p = NULL THEN m
    ELSE IF p \in Addr /\ m.heap[p].live
         THEN [m EXCEPT !.heap[p] = FreeBuf, !.log = Append(@, <<"delete[]", p>>)]
         ELSE Undefined([m EXCEPT !.log = Append(@, <<"delete[]", p>>)])

\* what new uint8_t[n] answers on memory m: NULL when the allocation fails
\* (oom, or no address is left)
NewArrayAnswer(m, oom) == IF oom THEN NULL ELSE NextAddr(m)

\* new uint8_t[n] answering a
NewArray(m, a, n) ==
    IF ~Running(m) \/ a = NULL THEN m
    ELSE [m EXCEPT !.heap[a] = [live |-> TRUE, bytes |-> [i \in 1..n |-> 0]],
                   !.log = Append(@, <<"new[]", a>>)]

\* memcpy(to, from, n) between byte buffers; it is defined only when `from`
\* is a live buffer of at least n bytes that does not overlap `to`
MemcpyBytes(m, to, from, n) ==
    IF ~Running(m) THEN m
    ELSE IF from = NULL \/ from = to \/ ~m.heap[from].live \/ Len(m.heap[from].bytes) < n
         THEN Undefined(m)
         ELSE [m EXCEPT !.heap[to].bytes = SubSeq(m.heap[from].bytes, 1, n)]

\* delete r, for a heap vehicle_prop_value_t
DeleteRecord(m, r) ==
    IF ~Running(m) \/ r = NULL THEN m
    ELSE IF m.vals[r].st = "heap"
         THEN [m EXCEPT !.vals[r] = ZeroFields("freed"), !.log = Append(@, <<"delete", r>>)]
         ELSE Undefined([m EXCEPT !.log = Append(@, <<"delete", r>>)])

\* delete c, for a heap vehicle_prop_config_t
DeleteConfig(m, c) ==
    IF ~Running(m) \/ c = NULL THEN m
    ELSE IF m.cfgs[c].st = "heap"
         THEN [m EXCEPT !.cfgs[c] = NoConfig("freed"),
                        !.log = Append(@, <<"delete config", c>>)]
         ELSE Undefined([m EXCEPT !.log = Append(@, <<"delete config", c>>)])

\* the macro of lines 38-43: with ASSERT_ON_NO_MEMORY the process stops on a
\* null pointer, without it `action` is taken; `cont` is the code after it
ASSERT_OR_HANDLE_NO_MEMORY(m, ptr, action, cont) ==
    IF ~Running(m) THEN m
    ELSE IF ptr # NULL THEN cont
    ELSE IF mode = "assert" THEN [m EXCEPT !.proc = "aborted"]
    ELSE action

Return(m, code) == IF Running(m) THEN [m EXCEPT !.ret = code] ELSE m

\* --------------------------------------------------- VehiclePropValueUtil
\* the addresses deleteMembers hands to delete[] for a record with fields v
\* (variant: a deleteMembers without the switch on value_type)
DeleteMembersAll(v) == <<v.data>>

ValueDeleteTargets(v) ==
    IF v.value_type \in BufferKinds THEN <<v.data>> ELSE <<>>

\* (variant: a deleteMembers that sets the pointer to NULL after the delete[])
DeleteMembersAndNull(m, v) ==
    IF ~Running(m) \/ v = NULL THEN m
    ELSE IF m.vals[v].st \notin LiveSt THEN Undefined(m)
    ELSE LET t == ValueDeleteTargets(m.vals[v])
             m1 == IF t = <<>> THEN m ELSE DeleteArray(m, t[1])
         IN IF Running(m1) /\ t # <<>> THEN [m1 EXCEPT !.vals[v].data = NULL] ELSE m1

VehiclePropValueUtil_deleteMembers(m, v) ==
    IF ~Running(m) \/ v = NULL THEN m
    ELSE IF m.vals[v].st \notin LiveSt THEN Undefined(m)
    ELSE LET t == ValueDeleteTargets(m.vals[v])
         IN IF t = <<>> THEN m ELSE DeleteArray(m, t[1])

\* memcpy(dest, &src, sizeof(vehicle_prop_value_t))
\* (variant: a copy of the payload alone, without prop and timestamp)
MemcpyValuePayloadOnly(m, dest, src) ==
    IF ~Running(m) THEN m
    ELSE [m EXCEPT !.vals[dest].value_type = m.vals[src].value_type,
                   !.vals[dest].data = m.vals[src].data,
                   !.vals[dest].len = m.vals[src].len]

MemcpyValue(m, dest, src) ==
    IF ~Running(m) THEN m
    ELSE IF m.vals[dest].st \notin LiveSt \/ m.vals[src].st \notin LiveSt
         THEN Undefined(m)
         ELSE [m EXCEPT !.vals[dest] = [m.vals[src] EXCEPT !.st = m.vals[dest].st]]

\* lines 131-135: the buffer of dest after the allocator answered a
\* (variant: a copy that keeps the pointer memcpy copied from src)
CopyBufferShallow(m, dest, src, oom) == Return(m, NO_ERROR)

CopyBuffer(m, dest, src, oom) ==
    LET n == m.vals[dest].len
        a == NewArrayAnswer(m, oom)
        m1 == NewArray(m, a, n)
        m2 == [m1 EXCEPT !.vals[dest].data = a]
    IN ASSERT_OR_HANDLE_NO_MEMORY(m2, a,
           Return(m2, NO_MEMORY),
           Return(MemcpyBytes(m2, a, m2.vals[src].data, n), NO_ERROR))

\* lines 136-138: a source of length 0
\* (variant: an else branch that does not reset the pointer)
CopyEmptyKeepPointer(m, dest) == Return(m, NO_ERROR)

CopyEmpty(m, dest) == Return([m EXCEPT !.vals[dest].data = NULL], NO_ERROR)

\* line 124: whether the old pointer of the destination, whose fields are v,
\* is handed to delete[]
\* (variant: a copy that releases the old buffer whatever deleteOldData says)
DeletesOldDataAlways(deleteOldData, v) == v.data # NULL /\ v.len > 0

DeletesOldData(deleteOldData, v) == deleteOldData /\ v.data # NULL /\ v.len > 0

\* copyVehicleProp(dest, src, deleteOldData); oom: new uint8_t[] fails
copyVehicleProp(m, dest, src, deleteOldData, oom) ==
    LET m1 == IF DeletesOldData(deleteOldData, m.vals[dest])
              THEN DeleteArray(m, m.vals[dest].data)
              ELSE m
        m2 == MemcpyValue(m1, dest, src)
    IN IF ~Running(m2) THEN m2
       ELSE IF m2.vals[src].value_type \in BufferKinds
            THEN IF m2.vals[dest].len > 0
                 THEN CopyBuffer(m2, dest, src, oom)
                 ELSE CopyEmpty(m2, dest)
            ELSE Return(m2, NO_ERROR)

\* line 149: what allocVehicleProp returns when new vehicle_prop_value_t()
\* answers null and the macro takes its action, `return NO_MEMORY`
AllocNoRecord(m) == Return(m, NO_MEMORY)

\* allocVehicleProp(v); r is what new vehicle_prop_value_t() answers (NULL:
\* it fails); oom: new uint8_t[] fails
allocVehicleProp(m, v, r, oom) ==
    LET m0 == IF r = NULL THEN m
              ELSE [m EXCEPT !.vals[r] = ZeroFields("heap"),
                             !.log = Append(@, <<"new", r>>)]
        m1 == copyVehicleProp(m0, r, v, FALSE, oom)
    IN ASSERT_OR_HANDLE_NO_MEMORY(m0, r,
           AllocNoRecord(m0),
           IF ~Running(m1) THEN m1
           ELSE IF m1.ret # NO_ERROR
                THEN Return(DeleteRecord(m1, r), NULL)   \* ~unique_ptr
                ELSE Return(m1, r))                      \* copy.release()

\* -------------------------------------------------- VehiclePropertiesUtil
\* the addresses deleteMembers hands to delete[] for a config with fields c
ConfigDeleteTargets(c) ==
    IF c.data # NULL /\ c.len > 0 THEN <<c.data>> ELSE <<>>

VehiclePropertiesUtil_deleteMembers(m, c) ==
    IF ~Running(m) THEN m
    ELSE IF c = NULL \/ m.cfgs[c].st # "heap" THEN Undefined(m)
    ELSE LET t == ConfigDeleteTargets(m.cfgs[c])
         IN IF t = <<>> THEN m ELSE DeleteArray(m, t[1])

\* ------------------------------------------------ VehiclePropertiesHolder
\* the fields the constructors set; strong is RefBase's count once the
\* creating sp<> holds the object
HolderFields(class, deleteInDestructor, l) ==
    [class |-> class, st |-> "live", flag |-> deleteInDestructor, mList |-> l,
     strong |-> 1, dtors |-> 0]

\* lines 83-87: the loop over mList
RECURSIVE DeleteConfigElems(_, _)
DeleteConfigElems(m, elems) ==
    IF elems = <<>> \/ ~Running(m) THEN m
    ELSE DeleteConfigElems(
             DeleteConfig(VehiclePropertiesUtil_deleteMembers(m, Head(elems)),
                          Head(elems)),
             Tail(elems))

\* the destructor's decision to delete the elements (lines 80-82)
ConfigsDeleted(h) == h.flag

\* ~VehiclePropertiesHolder(), then the destruction of the member mList
VehiclePropertiesHolder_dtor(m, h) ==
    LET m1 == IF ~ConfigsDeleted(h) THEN m
              ELSE IF m.list.st # "member" THEN Undefined(m)
              ELSE LET m2 == DeleteConfigElems(m, m.list.elems)
                   IN IF Running(m2) THEN [m2 EXCEPT !.list.elems = <<>>] ELSE m2
    IN IF Running(m1) THEN [m1 EXCEPT !.list = NoList("freed")] ELSE m1

\* --------------------------------------------- VehiclePropValueListHolder
\* lines 197-200: the loop over *mList
RECURSIVE DeleteValueElems(_, _)
DeleteValueElems(m, elems) ==
    IF elems = <<>> \/ ~Running(m) THEN m
    ELSE DeleteValueElems(
             DeleteRecord(VehiclePropValueUtil_deleteMembers(m, Head(elems)),
                          Head(elems)),
             Tail(elems))

\* delete mList
DeleteList(m) ==
    IF ~Running(m) THEN m
    ELSE IF m.list.st = "heap"
         THEN [m EXCEPT !.list = NoList("freed"), !.log = Append(@, <<"delete List", 1>>)]
         ELSE Undefined([m EXCEPT !.log = Append(@, <<"delete List", 1>>)])

\* the destructor's decision to delete the elements and the List (line 196)
\* (variant: a destructor that ignores mDeleteInDestructor)
ValuesDeletedAlways(h) == h.mList # NULL

ValuesDeleted(h) == h.flag /\ h.mList # NULL

\* ~VehiclePropValueListHolder()
\* (variant: a destructor that deletes the List before its elements)
ListHolderDtorListFirst(m, h) ==
    IF ~ValuesDeleted(h) THEN m
    ELSE IF m.list.st # "heap" THEN Undefined(m)
    ELSE DeleteValueElems(DeleteList(m), m.list.elems)

VehiclePropValueListHolder_dtor(m, h) ==
    IF ~ValuesDeleted(h) THEN m
    ELSE IF m.list.st # "heap" THEN Undefined(m)
    ELSE DeleteList(DeleteValueElems(m, m.list.elems))

\* getList().push_back(e): the holder and its List afterwards
\* (variant: a push_back that makes the holder own its elements)
PushBackAndOwn(hl, e) ==
    [hl EXCEPT !.list.elems = Append(@, e), !.holder.flag = TRUE]

PushBack(hl, e) == [hl EXCEPT !.list.elems = Append(@, e)]

\* ------------------------------------------------------------------ RefBase
\* RefBase::incStrong on holder h
RefBase_incStrong(h) == [h EXCEPT !.strong = @ + 1]

\* RefBase::decStrong on holder h: the count afterwards, and whether this
\* call destroys the object (it took the count from 1 to 0)
\* (variant: a decStrong that destroys while another handle remains)
DecStrongDestroysEarly(h) == h.strong <= 2

DecStrongDestroys(h) == h.strong = 1

RefBase_decStrong(h) == [h EXCEPT !.strong = @ - 1]

\* ------------------------------------------------------------------ steps
\* the slot the next object is created in, among slots S (NULL: none left)
NextRec(S) ==
    IF FreeRecs(Begin) \cap S = {} THEN NULL
    ELSE CHOOSE r \in FreeRecs(Begin) \cap S : \A q \in FreeRecs(Begin) \cap S : r <= q

NextCfg ==
    IF \A c \in Cfg : cfgs[c].st # "none" THEN NULL
    ELSE CHOOSE c \in Cfg : cfgs[c].st = "none" /\ \A d \in 1..(c - 1) : cfgs[d].st # "none"

NoCall ==
    [op |-> "none", dest |-> NULL, src |-> NULL, del |-> FALSE, path |-> "",
     ret |-> NO_ERROR, log |-> <<>>]

\* the state after a call that ran on memory m
Commit(m, op, dest, src, del, path) ==
    /\ vals' = m.vals
    /\ heap' = m.heap
    /\ cfgs' = m.cfgs
    /\ list' = m.list
    /\ proc' = m.proc
    /\ last' = [op |-> op, dest |-> dest, src |-> src, del |-> del, path |-> path,
                ret |-> m.ret, log |-> m.log]

\* record r was overwritten or went away: it is no copy any more, and no
\* record is a copy of what it now holds
ClearOrigin(o, r) == [q \in Rec |-> IF q = r \/ o[q] = r THEN NULL ELSE o[q]]

\* ------------------------------------------------- ScopedVehiclePropValue
\* the constructor, lines 172-174
ScopedCtorFields(st) == ZeroFields(st)

ScopedVehiclePropValue_ctor ==
    /\ proc = "running"
    /\ NextRec(HeaderSlots) # NULL
    /\ Commit([Begin EXCEPT !.vals[NextRec(HeaderSlots)] = ScopedCtorFields("scoped")],
              "ScopedVehiclePropValue", NextRec(HeaderSlots), NULL, FALSE, "")
    /\ UNCHANGED <<mode, holder, sp, origin>>

\* the destructor, lines 176-178, run when the scope is left by `path`
ScopedVehiclePropValue_dtor(r, path) ==
    /\ proc = "running"
    /\ vals[r].st = "scoped"
    /\ LET m1 == VehiclePropValueUtil_deleteMembers(Begin, r)
           m2 == IF Running(m1) THEN [m1 EXCEPT !.vals[r] = ZeroFields("gone")] ELSE m1
       IN Commit(m2, "~ScopedVehiclePropValue", r, NULL, FALSE, path)
    /\ origin' = ClearOrigin(origin, r)
    /\ UNCHANGED <<mode, holder, sp>>

\* the implicit copy constructor ScopedVehiclePropValue(const
\* ScopedVehiclePropValue&): the class declares none, so the member `value`
\* is copied bit by bit into the new object
ScopedVehiclePropValue_copy(src) ==
    /\ proc = "running"
    /\ vals[src].st = "scoped"
    /\ NextRec(Rec) # NULL
    /\ Commit([Begin EXCEPT !.vals[NextRec(Rec)] = vals[src]],
              "ScopedVehiclePropValue(const&)", NextRec(Rec), src, FALSE, "")
    /\ UNCHANGED <<mode, holder, sp, origin>>

\* ------------------------------------------------------------ the callers
\* a record the caller may fill in: a new local value, or the zeroed value of
\* a ScopedVehiclePropValue ("use value.value")
Fillable(r) == r = NextRec(CallerSlots) \/ vals[r] = ZeroFields("scoped")

FilledSt(r) == IF vals[r].st = "none" THEN "stack" ELSE vals[r].st

ScalarFields(st, bits) ==
    [st |-> st, value_type |-> VEHICLE_VALUE_TYPE_INT32,
     prop |-> MetaOf(VEHICLE_VALUE_TYPE_INT32).prop,
     timestamp |-> MetaOf(VEHICLE_VALUE_TYPE_INT32).timestamp,
     data |-> bits[1], len |-> bits[2]]

BufferFields(st, t, a, n) ==
    [st |-> st, value_type |-> t, prop |-> MetaOf(t).prop,
     timestamp |-> MetaOf(t).timestamp, data |-> a, len |-> n]

\* the caller's own new uint8_t[Len(bytes)] at address a, filled with bytes
CallerBuffer(m, a, bytes) ==
    IF a = NULL THEN m
    ELSE [m EXCEPT !.heap[a] = [live |-> TRUE, bytes |-> bytes],
                   !.log = Append(@, <<"new[]", a>>)]

\* the caller produces a value of scalar kind
PopulateScalar(r, bits) ==
    /\ proc = "running"
    /\ Fillable(r)
    /\ Commit([Begin EXCEPT !.vals[r] = ScalarFields(FilledSt(r), bits)],
              "PopulateScalar", r, NULL, FALSE, "")
    /\ origin' = ClearOrigin(origin, r)
    /\ UNCHANGED <<mode, holder, sp>>

\* the caller produces a value of buffer kind: no buffer (a = NULL, length
\* 0) or a buffer of its own at address a holding bytes
PopulateBuffer(r, t, a, bytes) ==
    /\ proc = "running"
    /\ Fillable(r)
    /\ a \in {NextAddr(Begin), NULL}
    /\ a = NULL => bytes = <<>>
    /\ Commit(CallerBuffer([Begin EXCEPT !.vals[r] =
                               BufferFields(FilledSt(r), t, a, Len(bytes))],
                           a, bytes),
              "PopulateBuffer", r, NULL, FALSE, "")
    /\ origin' = ClearOrigin(origin, r)
    /\ UNCHANGED <<mode, holder, sp>>

\* the caller overwrites the buffer of its value r with byte b
\* (memset(r.value.str_value.data, b, r.value.str_value.len))
MutateBuffer(r, b) ==
    /\ proc = "running"
    /\ vals[r].st = "stack"
    /\ vals[r].value_type \in BufferKinds
    /\ vals[r].data # NULL
    /\ vals[r].len > 0
    /\ heap[vals[r].data].live
    /\ Len(heap[vals[r].data].bytes) = vals[r].len
    /\ heap[vals[r].data].bytes # Filled(vals[r].len, b)
    /\ Commit([Begin EXCEPT !.heap[vals[r].data].bytes = Filled(vals[r].len, b)],
              "MutateBuffer", r, NULL, FALSE, "")
    /\ UNCHANGED <<mode, holder, sp, origin>>

\* the caller releases the buffer of its value r and clears the pointer:
\* deleteMembers(&r); r.value.str_value.data = NULL; r.value.str_value.len = 0
ClearBuffer(r) ==
    /\ proc = "running"
    /\ vals[r].st = "stack"
    /\ vals[r].value_type \in BufferKinds
    /\ vals[r].data # NULL
    /\ LET m1 == VehiclePropValueUtil_deleteMembers(Begin, r)
           m2 == IF Running(m1)
                 THEN [m1 EXCEPT !.vals[r].data = NULL, !.vals[r].len = 0]
                 ELSE m1
       IN Commit(m2, "ClearBuffer", r, NULL, FALSE, "")
    /\ origin' = ClearOrigin(origin, r)
    /\ UNCHANGED <<mode, holder, sp>>

\* a call of VehiclePropValueUtil::deleteMembers(v) by the caller, who keeps
\* the value; v may be NULL
CallDeleteMembers(v) ==
    /\ proc = "running"
    /\ v # NULL => vals[v].st \in LiveSt
    /\ Commit(VehiclePropValueUtil_deleteMembers(Begin, v), "deleteMembers", v, NULL, FALSE, "")
    /\ UNCHANGED <<mode, holder, sp, origin>>

\* after its deleteMembers(&r) the caller clears the pointer:
\* r.value.str_value.data = NULL
NullPointer(r) ==
    /\ proc = "running"
    /\ last.op = "deleteMembers"
    /\ last.dest = r
    /\ vals[r].value_type \in BufferKinds
    /\ vals[r].data # NULL
    /\ Commit([Begin EXCEPT !.vals[r].data = NULL], "NullPointer", r, NULL, FALSE, "")
    /\ origin' = ClearOrigin(origin, r)
    /\ UNCHANGED <<mode, holder, sp>>

\* the owner of a local or heap value releases it: deleteMembers, then the
\* record goes out of scope or is deleted.  An element of a list is left
\* alone while the holder of the list lives.
OwnerRelease(r) ==
    /\ proc = "running"
    /\ vals[r].st \in {"stack", "heap"}
    /\ ~(holder.st = "live" /\ \E i \in DOMAIN list.elems : list.elems[i] = r)
    /\ LET m1 == VehiclePropValueUtil_deleteMembers(Begin, r)
           m2 == IF ~Running(m1) THEN m1
                 ELSE IF vals[r].st = "heap" THEN DeleteRecord(m1, r)
                 ELSE [m1 EXCEPT !.vals[r] = ZeroFields("gone")]
       IN Commit(m2, "OwnerRelease", r, NULL, FALSE, "")
    /\ origin' = ClearOrigin(origin, r)
    /\ UNCHANGED <<mode, holder, sp>>

\* a call of copyVehicleProp(&dest, src, deleteOldData)
CallCopy(dest, src, deleteOldData, oom) ==
    /\ proc = "running"
    /\ vals[dest].st \in {"scoped", "heap"}
    /\ vals[src].st \in LiveSt
    /\ dest # src   \* memcpy (line 127) is not defined on overlapping objects
    /\ LET m == copyVehicleProp(Begin, dest, src, deleteOldData, oom)
       IN /\ Commit(m, "copyVehicleProp", dest, src, deleteOldData, "")
          /\ origin' = IF Running(m) /\ m.ret = NO_ERROR
                       THEN [ClearOrigin(origin, dest) EXCEPT ![dest] = src]
                       ELSE ClearOrigin(origin, dest)
    /\ UNCHANGED <<mode, holder, sp>>

\* a call of allocVehicleProp(src)
CallAlloc(src, oomRec, oom) ==
    /\ proc = "running"
    /\ vals[src].st \in LiveSt
    /\ LET r == IF oomRec THEN NULL ELSE NextRec(HeaderSlots)
           m == allocVehicleProp(Begin, src, r, oom)
       IN /\ Commit(m, "allocVehicleProp", r, src, FALSE, "")
          /\ origin' = IF Running(m) /\ m.ret \in Rec
                       THEN [origin EXCEPT ![m.ret] = src]
                       ELSE origin
    /\ UNCHANGED <<mode, holder, sp>>

\* ------------------------------------------------------- the list holders
NoHolder(class) ==
    [class |-> class, st |-> "none", flag |-> FALSE, mList |-> NULL,
     strong |-> 0, dtors |-> 0]

IsValueHolder == holder.class = "VehiclePropValueListHolder"

IsConfigHolder == holder.class = "VehiclePropertiesHolder"

\* the caller's new List<vehicle_prop_value_t*>()
NewList ==
    /\ proc = "running"
    /\ IsValueHolder
    /\ holder.st = "none"
    /\ list.st = "none"
    /\ Commit([Begin EXCEPT !.list = NoList("heap"), !.log = Append(@, <<"new List", 1>>)],
              "new List", NULL, NULL, FALSE, "")
    /\ UNCHANGED <<mode, holder, sp, origin>>

\* sp<VehiclePropValueListHolder> h = new VehiclePropValueListHolder(l, flag)
VehiclePropValueListHolder_ctor(l, deleteInDestructor) ==
    /\ proc = "running"
    /\ IsValueHolder
    /\ holder.st = "none"
    /\ l = NULL \/ (l = 1 /\ list.st = "heap")
    /\ holder' = HolderFields(holder.class, deleteInDestructor, l)
    /\ sp' = {1}
    /\ Commit(Begin, "VehiclePropValueListHolder", l, NULL, deleteInDestructor, "")
    /\ UNCHANGED <<mode, origin>>

\* sp<VehiclePropertiesHolder> h = new VehiclePropertiesHolder(flag)
VehiclePropertiesHolder_ctor(deleteConfigsInDestructor) ==
    /\ proc = "running"
    /\ IsConfigHolder
    /\ holder.st = "none"
    /\ holder' = HolderFields(holder.class, deleteConfigsInDestructor, 1)
    /\ sp' = {1}
    /\ Commit([Begin EXCEPT !.list = NoList("member")],
              "VehiclePropertiesHolder", 1, NULL, deleteConfigsInDestructor, "")
    /\ UNCHANGED <<mode, origin>>

\* the elements of the list
InList(e) == \E i \in DOMAIN list.elems : list.elems[i] = e

\* a handle holds the holder and the holder has a list to hand out
HasList ==
    /\ holder.st = "live"
    /\ sp # {}
    /\ holder.mList # NULL
    /\ list.st \in {"heap", "member"}

\* getList().push_back(e) on the memory m in which e was made
Append_getList(m, op, e) ==
    LET hl == PushBack([holder |-> holder, list |-> m.list], e)
    IN /\ holder' = hl.holder
       /\ Commit([m EXCEPT !.list = hl.list], op, e, NULL, FALSE, "")

\* holder->getList().push_back(new vehicle_prop_value_t), a scalar
PushBackScalar(bits) ==
    /\ proc = "running"
    /\ IsValueHolder
    /\ HasList
    /\ NextRec(Rec) # NULL
    /\ Append_getList([Begin EXCEPT !.vals[NextRec(Rec)] = ScalarFields("heap", bits),
                                    !.log = Append(@, <<"new", NextRec(Rec)>>)],
                      "PushBackScalar", NextRec(Rec))
    /\ UNCHANGED <<mode, sp, origin>>

\* holder->getList().push_back(new vehicle_prop_value_t), with a buffer of n
\* bytes at a, or with none (a = NULL, n = 0)
PushBackBuffer(t, a, n) ==
    /\ proc = "running"
    /\ IsValueHolder
    /\ HasList
    /\ NextRec(Rec) # NULL
    /\ a \in {NextAddr(Begin), NULL}
    /\ a = NULL => n = 0
    /\ Append_getList(CallerBuffer([Begin EXCEPT
                                       !.vals[NextRec(Rec)] = BufferFields("heap", t, a, n),
                                       !.log = Append(@, <<"new", NextRec(Rec)>>)],
                                   a, Filled(n, 1)),
                      "PushBackBuffer", NextRec(Rec))
    /\ UNCHANGED <<mode, sp, origin>>

\* holder->getList().push_back(new vehicle_prop_config_t), its config_string
\* a buffer of n bytes at a, or none (a = NULL, n = 0)
PushBackConfig(a, n) ==
    /\ proc = "running"
    /\ IsConfigHolder
    /\ HasList
    /\ NextCfg # NULL
    /\ a \in {NextAddr(Begin), NULL}
    /\ a = NULL => n = 0
    /\ Append_getList(CallerBuffer([Begin EXCEPT
                                       !.cfgs[NextCfg] = [st |-> "heap", data |-> a, len |-> n],
                                       !.log = Append(@, <<"new config", NextCfg>>)],
                                   a, Filled(n, 1)),
                      "PushBackConfig", NextCfg)
    /\ UNCHANGED <<mode, sp, origin>>

\* handle h becomes a copy of a handle that holds the holder
incStrong(h) ==
    /\ proc = "running"
    /\ holder.st = "live"
    /\ sp # {}
    /\ h \notin sp
    /\ \A g \in Handle \ sp : h <= g
    /\ holder' = RefBase_incStrong(holder)
    /\ sp' = sp \cup {h}
    /\ Commit(Begin, "incStrong", h, NULL, FALSE, "")
    /\ UNCHANGED <<mode, origin>>

\* the destructor of the holder's class
Holder_dtor(m, h) ==
    IF h.class = "VehiclePropValueListHolder"
    THEN VehiclePropValueListHolder_dtor(m, h)
    ELSE VehiclePropertiesHolder_dtor(m, h)

\* handle h lets go of the holder; the call that takes the count to zero
\* runs the destructor
decStrong(h) ==
    /\ proc = "running"
    /\ h \in sp
    /\ sp' = sp \ {h}
    /\ IF DecStrongDestroys(holder)
       THEN LET m == Holder_dtor(Begin, holder)
            IN /\ holder' = [RefBase_decStrong(holder) EXCEPT
                                !.st = "destroyed", !.dtors = @ + 1]
               /\ Commit(m, "decStrong", h, NULL, TRUE, "")
       ELSE /\ holder' = RefBase_decStrong(holder)
            /\ Commit(Begin, "decStrong", h, NULL, FALSE, "")
    /\ UNCHANGED <<mode, origin>>

\* the owner of a config record releases it: deleteMembers, then delete
OwnerReleaseConfig(c) ==
    /\ proc = "running"
    /\ IsConfigHolder
    /\ cfgs[c].st = "heap"
    /\ ~(holder.st = "live" /\ InList(c))
    /\ Commit(DeleteConfig(VehiclePropertiesUtil_deleteMembers(Begin, c), c),
              "OwnerReleaseConfig", c, NULL, FALSE, "")
    /\ UNCHANGED <<mode, holder, sp, origin>>

\* the owner of a List no holder deletes deletes it
OwnerDeleteList ==
    /\ proc = "running"
    /\ IsValueHolder
    /\ list.st = "heap"
    /\ holder.st = "destroyed" \/ (holder.st = "live" /\ holder.mList = NULL)
    /\ Commit(DeleteList(Begin), "OwnerDeleteList", NULL, NULL, FALSE, "")
    /\ UNCHANGED <<mode, holder, sp, origin>>

\* --------------------------------------------------------- specifications
InitMemory ==
    /\ mode \in {"assert", "propagate"}
    /\ proc = "running"
    /\ vals = [r \in Rec |-> ZeroFields("none")]
    /\ heap = [a \in Addr |-> FreeBuf]
    /\ cfgs = [c \in Cfg |-> NoConfig("none")]
    /\ list = NoList("none")
    /\ sp = {}
    /\ origin = [r \in Rec |-> NULL]
    /\ last = NoCall

\* values, scoped values and the two copy functions
Init ==
    /\ InitMemory
    /\ holder = NoHolder("none")

Next ==
    \/ ScopedVehiclePropValue_ctor
    \/ \E r \in Rec, path \in ExitPaths : ScopedVehiclePropValue_dtor(r, path)
    \/ \E r \in CallerSlots, bits \in ScalarBits : PopulateScalar(r, bits)
    \/ \E r \in CallerSlots, t \in BufferKinds, a \in Addr \cup {NULL}, n \in 0..MaxLen :
          \E b \in Byte : PopulateBuffer(r, t, a, Filled(n, b))
    \/ \E r \in Rec, b \in Byte : MutateBuffer(r, b)
    \/ \E r \in Rec : OwnerRelease(r)
    \/ \E dest \in Rec, src \in Rec, del \in BOOLEAN, oom \in BOOLEAN :
          CallCopy(dest, src, del, oom)
    \/ \E src \in Rec, oomRec \in BOOLEAN, oom \in BOOLEAN :
          CallAlloc(src, oomRec, oom)

Spec == Init /\ [][Next]_vars

\* the same with copyVehicleProp always called with its default argument
\* (deleteOldData = false), and callers that also release a buffer and keep
\* the value
NextDefault ==
    \/ ScopedVehiclePropValue_ctor
    \/ \E r \in Rec, path \in ExitPaths : ScopedVehiclePropValue_dtor(r, path)
    \/ \E r \in CallerSlots, bits \in ScalarBits : PopulateScalar(r, bits)
    \/ \E r \in CallerSlots, t \in BufferKinds, a \in Addr \cup {NULL}, n \in 0..MaxLen :
          \E b \in Byte : PopulateBuffer(r, t, a, Filled(n, b))
    \/ \E r \in Rec, b \in Byte : MutateBuffer(r, b)
    \/ \E r \in Rec : ClearBuffer(r)
    \/ \E r \in Rec : OwnerRelease(r)
    \/ \E dest \in Rec, src \in Rec, oom \in BOOLEAN : CallCopy(dest, src, FALSE, oom)
    \/ \E src \in Rec, oomRec \in BOOLEAN, oom \in BOOLEAN :
          CallAlloc(src, oomRec, oom)

SpecDefault == Init /\ [][NextDefault]_vars

\* callers that call deleteMembers themselves on values they keep
NextDelete ==
    \/ ScopedVehiclePropValue_ctor
    \/ \E r \in Rec, path \in ExitPaths : ScopedVehiclePropValue_dtor(r, path)
    \/ \E r \in CallerSlots, bits \in ScalarBits : PopulateScalar(r, bits)
    \/ \E r \in CallerSlots, t \in BufferKinds, a \in Addr \cup {NULL}, n \in 0..MaxLen :
          PopulateBuffer(r, t, a, Filled(n, 1))
    \/ \E v \in Rec \cup {NULL} : CallDeleteMembers(v)
    \/ \E r \in Rec : NullPointer(r)
    \/ \E r \in Rec : OwnerRelease(r)
    \/ \E dest \in Rec, src \in Rec : CallCopy(dest, src, FALSE, FALSE)

SpecDelete == Init /\ [][NextDelete]_vars

\* scoped values that are copied as objects
NextScopedCopy ==
    \/ ScopedVehiclePropValue_ctor
    \/ \E r \in Rec, path \in ExitPaths : ScopedVehiclePropValue_dtor(r, path)
    \/ \E r \in HeaderSlots, bits \in ScalarBits : PopulateScalar(r, bits)
    \/ \E r \in HeaderSlots, t \in BufferKinds, a \in Addr \cup {NULL}, n \in 0..MaxLen :
          \E b \in Byte : PopulateBuffer(r, t, a, Filled(n, b))
    \/ \E src \in Rec : ScopedVehiclePropValue_copy(src)

SpecScopedCopy == Init /\ [][NextScopedCopy]_vars

\* one list holder of either class, its elements and its handles
InitList ==
    /\ InitMemory
    /\ holder \in {NoHolder("VehiclePropValueListHolder"),
                   NoHolder("VehiclePropertiesHolder")}

NextList ==
    \/ NewList
    \/ \E l \in {NULL, 1}, flag \in BOOLEAN : VehiclePropValueListHolder_ctor(l, flag)
    \/ \E flag \in BOOLEAN : VehiclePropertiesHolder_ctor(flag)
    \/ \E bits \in ScalarBits : PushBackScalar(bits)
    \/ \E t \in BufferKinds, a \in Addr \cup {NULL}, n \in 0..MaxLen : PushBackBuffer(t, a, n)
    \/ \E a \in Addr \cup {NULL}, n \in 0..MaxLen : PushBackConfig(a, n)
    \/ \E h \in Handle : incStrong(h)
    \/ \E h \in Handle : decStrong(h)
    \/ \E r \in Rec : OwnerRelease(r)
    \/ \E c \in Cfg : OwnerReleaseConfig(c)
    \/ OwnerDeleteList

SpecList == InitList /\ [][NextList]_vars

\* ------------------------------------------------------------------ claims
\* the step just taken was a call of op
Called(op) == vars' # vars /\ last'.op = op

\* entries of a call's log of the given kinds
LogCount(log, kinds) == Cardinality({i \in DOMAIN log : log[i][1] \in kinds})

\* allocations made minus allocations released by the last call
LogNet(log) ==
    LogCount(log, {"new", "new[]", "new config", "new List"})
    - LogCount(log, {"delete", "delete[]", "delete config", "delete List"})

\* the buffers some live value or config record points to
HeldBy(r) ==
    IF vals[r].st \in LiveSt /\ vals[r].value_type \in BufferKinds
    THEN {vals[r].data} \cap Addr ELSE {}

HeldBuffers ==
    UNION {HeldBy(r) : r \in Rec}
    \cup {cfgs[c].data : c \in {d \in Cfg : cfgs[d].st = "heap"}}

C1_NeverTwice == proc # "undefined"

C1_NoLeakStep ==
    (/\ proc' = "running"
     /\ last'.ret # NO_MEMORY
     /\ LiveBuffers(Begin) \subseteq HeldBuffers)
    => (LiveBuffers(Begin) \subseteq HeldBuffers)'

\* C1: over every sequence of construct, populate, copy into and destroy, each
\* owned buffer is freed exactly once: no delete[] ever hits a buffer that is
\* not live (never twice), and no call that returns without an allocation
\* failure leaves a live buffer that no live record points to (never zero
\* times).
C1_FreedExactlyOnce == []C1_NeverTwice /\ [][C1_NoLeakStep]_vars

\* C1 case: a ScopedVehiclePropValue that holds a copied buffer was the
\* destination of a second copyVehicleProp, which succeeded
C1_Witness ==
    /\ last.op = "copyVehicleProp"
    /\ ~last.del
    /\ vals[last.dest].st = "scoped"
    /\ proc = "running"
    /\ last.ret = NO_ERROR
    /\ last.log = <<>>
    /\ ~(LiveBuffers(Begin) \subseteq HeldBuffers)

\* the record a successful copy produced by the last call, or NULL
CopyResult ==
    IF proc # "running" THEN NULL
    ELSE IF last.op = "copyVehicleProp" /\ last.ret = NO_ERROR THEN last.dest
    ELSE IF last.op = "allocVehicleProp" /\ last.ret \in Rec THEN last.ret
    ELSE NULL

\* the last call deep-copied a source of buffer kind with length > 0
CopiedBuffer ==
    /\ CopyResult # NULL
    /\ vals[last.src].value_type \in BufferKinds
    /\ vals[last.src].len > 0

C2_RoundTrip ==
    CopiedBuffer =>
        LET d == vals[CopyResult]
            v == vals[last.src]
        IN /\ d.len = v.len
           /\ d.data \in Addr
           /\ d.data # v.data
           /\ heap[d.data].live
           /\ Len(heap[d.data].bytes) = d.len
           /\ heap[d.data].bytes = heap[v.data].bytes

C2_SourceChangeKeepsCopy ==
    \A d \in Rec :
        (/\ Called("MutateBuffer") \/ Called("OwnerRelease")
         /\ origin[d] # NULL
         /\ origin[d] = last'.dest
         /\ vals[d].value_type \in BufferKinds
         /\ vals[d].len > 0)
        => /\ proc' = "running"
           /\ vals'[d] = vals[d]
           /\ heap'[vals[d].data] = heap[vals[d].data]

\* C2: a successful copyVehicleProp / allocVehicleProp of a BYTES or STRING
\* source of length L > 0 leaves a destination of length L whose buffer is
\* live, distinct from the source's and byte-equal to it; a later mutation or
\* release of the source's buffer leaves the destination and its buffer
\* unchanged.
C2_DeepCopyRoundTrip == []C2_RoundTrip /\ [][C2_SourceChangeKeepsCopy]_vars

\* C2 case: the source of a copy was released and the copy still holds its
\* own live buffer with the copied content
C2_Witness ==
    /\ last.op = "OwnerRelease"
    /\ proc = "running"
    /\ \E d \in Rec :
          /\ vals[d].st \in {"scoped", "heap"}
          /\ vals[d].value_type \in BufferKinds
          /\ vals[d].len > 0
          /\ vals[d].data \in Addr
          /\ heap[vals[d].data].live
          /\ heap[vals[d].data].bytes = Filled(vals[d].len, 1)
          /\ <<"delete[]", vals[d].data>> \notin {last.log[i] : i \in DOMAIN last.log}
          /\ last.log # <<>>

\* the last step destroyed a holder that owns its elements
OwnerDestroyed ==
    /\ last.op = "decStrong"
    /\ holder.st = "destroyed"
    /\ holder.flag
    /\ holder.class = "VehiclePropertiesHolder" \/ holder.mList # NULL

\* C3: destroying an owning list (value list or config list) frees every
\* element's buffer and every element record: no allocation of the list and
\* its elements is live afterwards, and nothing freed was touched (the
\* process is still defined).
C3_OwningDestructionComplete ==
    OwnerDestroyed => proc = "running" /\ LiveAllocs = 0

\* C3 case: an owning list with two elements, one of them with a buffer, was
\* destroyed
C3_Witness ==
    /\ OwnerDestroyed
    /\ LogCount(last.log, {"delete", "delete config"}) >= 2
    /\ LogCount(last.log, {"delete[]"}) >= 1

\* the step destroys a holder that does not own its elements
BorrowerDestroyedStep ==
    /\ Called("decStrong")
    /\ holder.st = "live"
    /\ holder'.st = "destroyed"
    /\ ~holder.flag

C4_ElementsUntouched ==
    BorrowerDestroyedStep =>
        /\ proc' = "running"
        /\ vals' = vals
        /\ cfgs' = cfgs
        /\ heap' = heap

C4_OwnerCanFree == (holder.st # "none" /\ ~holder.flag) => proc = "running"

\* C4: destroying a list built with the ownership flag false, of either class,
\* leaves every element record and every element buffer allocated and
\* unchanged, and the owner's later release of them is no double free.
C4_BorrowingListNonDestruction == [][C4_ElementsUntouched]_vars /\ []C4_OwnerCanFree

\* C4 case: after a borrowing list with a buffer element was destroyed, the
\* owner released that element and its buffer
C4_Witness ==
    /\ holder.st = "destroyed"
    /\ ~holder.flag
    /\ last.op \in {"OwnerRelease", "OwnerReleaseConfig"}
    /\ LogCount(last.log, {"delete[]"}) = 1
    /\ proc = "running"

C5_States ==
    /\ holder.st \in {"none", "live", "destroyed"}
    /\ holder.strong = Cardinality(sp)
    /\ holder.st = "live" <=> holder.strong >= 1
    /\ holder.st = "live" => holder.dtors = 0
    /\ holder.st = "destroyed" <=> holder.dtors = 1
    /\ holder.dtors <= 1

C5_Steps ==
    /\ holder'.dtors # holder.dtors =>
          /\ Called("decStrong")
          /\ holder.strong = 1
          /\ holder'.strong = 0
          /\ holder'.dtors = holder.dtors + 1
    /\ (Called("decStrong") /\ holder.strong = 1) => holder'.dtors = holder.dtors + 1
    /\ holder.st = "destroyed" => holder'.st = "destroyed"

\* C5: the holder's destructor runs exactly once, in the decStrong that takes
\* the strong count from 1 to 0, whatever the order in which handles are
\* acquired and released; it never runs while a handle remains, and a
\* destroyed holder stays destroyed and is not destroyed again.
C5_DestroyedExactlyAtZero == []C5_States /\ [][C5_Steps]_vars

\* C5 case: two handles held the holder, and the release of the second one
\* destroyed it
C5_Witness ==
    /\ holder.st = "destroyed"
    /\ holder.dtors = 1
    /\ last.op = "decStrong"
    /\ last.dest = 2
    /\ sp = {}

\* an allocation of the last allocVehicleProp failed: the record's, or the
\* buffer's that the source needs
AllocFailed ==
    /\ last.op = "allocVehicleProp"
    /\ \/ last.dest = NULL
       \/ /\ vals[last.src].value_type \in BufferKinds
          /\ vals[last.src].len > 0
          /\ LogCount(last.log, {"new[]"}) = 0

\* C6: in propagate mode allocVehicleProp returns null whenever the record
\* allocation or the buffer allocation fails, and the failed call leaves as
\* many live allocations as it found.
C6_AllocFailureReturnsNull ==
    (mode = "propagate" /\ AllocFailed /\ proc = "running")
        => last.ret = NULL /\ LogNet(last.log) = 0

\* C6 case: new vehicle_prop_value_t() failed in propagate mode
C6_Witness ==
    /\ mode = "propagate"
    /\ AllocFailed
    /\ last.dest = NULL
    /\ proc = "running"

\* C7: after any copy of a ScopedVehiclePropValue the original and the copy
\* hold different buffers, so that destroying both deletes no buffer twice.
C7_ScopedCopyIsDeep ==
    /\ proc # "undefined"
    /\ \A r \in Rec, q \in Rec :
          (/\ r # q
           /\ vals[r].st = "scoped"
           /\ vals[q].st = "scoped"
           /\ vals[r].value_type \in BufferKinds
           /\ vals[q].value_type \in BufferKinds
           /\ vals[r].data # NULL)
          => vals[r].data # vals[q].data

\* C7 case: a ScopedVehiclePropValue that holds a buffer was copy-constructed
C7_Witness ==
    /\ last.op = "ScopedVehiclePropValue(const&)"
    /\ vals[last.src].value_type \in BufferKinds
    /\ vals[last.src].data # NULL
    /\ vals[last.dest].st = "scoped"

C8_ZeroInitialised ==
    last.op = "ScopedVehiclePropValue" => vals[last.dest] = ZeroFields("scoped")

C8_ReleasedOnce ==
    Called("~ScopedVehiclePropValue") =>
        LET v == vals[last'.dest]
        IN /\ last'.path \in ExitPaths
           /\ last'.log = IF v.value_type \in BufferKinds /\ v.data # NULL
                          THEN << <<"delete[]", v.data>> >>
                          ELSE <<>>
           /\ proc' = "running" => vals'[last'.dest].st = "gone"

C8_GoneForGood == \A r \in Rec : vals[r].st = "gone" => vals'[r].st = "gone"

\* C8: a newly constructed ScopedVehiclePropValue holds an all-zero value
\* (null pointer, length 0); leaving its scope by any exit path applies
\* deleteMembers to the value exactly once: one delete[] of the buffer it
\* holds, none when it holds no buffer, and never again afterwards.
C8_ScopedZeroInitAndRelease ==
    []C8_ZeroInitialised /\ [][C8_ReleasedOnce /\ C8_GoneForGood]_vars

\* C8 case: a scope holding a ScopedVehiclePropValue with a buffer was left by
\* an early return, and the buffer was deleted
C8_Witness ==
    /\ last.op = "~ScopedVehiclePropValue"
    /\ last.path = "early return"
    /\ Len(last.log) = 1
    /\ vals[last.dest].st = "gone"
    /\ proc = "running"

\* the last call was a copyVehicleProp of a buffer-kind source of length 0
CopiedEmpty ==
    /\ last.op = "copyVehicleProp"
    /\ proc = "running"
    /\ vals[last.src].value_type \in BufferKinds
    /\ vals[last.src].len = 0

\* C9: copyVehicleProp of a BYTES or STRING source of length 0, whatever the
\* source's pointer, returns NO_ERROR, allocates nothing and leaves the
\* destination with a null pointer and length 0.
C9_ZeroLengthCopy ==
    CopiedEmpty =>
        /\ last.ret = NO_ERROR
        /\ LogCount(last.log, {"new", "new[]"}) = 0
        /\ vals[last.dest].data = NULL
        /\ vals[last.dest].len = 0

\* C9 case: the source of length 0 had a non-null pointer
C9_Witness ==
    /\ CopiedEmpty
    /\ vals[last.src].data # NULL
    /\ vals[last.dest].data = NULL

C10_FlagFixed == holder.st # "none" => holder'.flag = holder.flag

C10_SharingKeepsList ==
    ((Called("incStrong") \/ Called("decStrong")) /\ holder'.st = "live")
        => /\ list' = list
           /\ holder'.flag = holder.flag
           /\ holder'.mList = holder.mList

\* C10: the ownership flag a holder is constructed with is its flag in every
\* later state, through getList().push_back, incStrong, decStrong and the
\* destructor; acquiring or releasing a handle while another one remains
\* changes neither the list nor the flag.
C10_OwnershipFlagImmutable == [][C10_FlagFixed /\ C10_SharingKeepsList]_vars

\* C10 case: elements were appended through getList() to a holder built with
\* the flag false, and a handle was released while another remained
C10_Witness ==
    /\ holder.st = "live"
    /\ ~holder.flag
    /\ list.elems # <<>>
    /\ last.op = "decStrong"
    /\ sp # {}

\* the last call was a copyVehicleProp that returned NO_ERROR
CopiedAny ==
    /\ last.op = "copyVehicleProp"
    /\ proc = "running"
    /\ last.ret = NO_ERROR

\* C11: after a successful copyVehicleProp of a source of any kind the
\* destination's value_type, prop, timestamp and length are the source's; for
\* a source of scalar kind the payload is the source's too and the call
\* allocated nothing.
C11_MetadataCopied ==
    CopiedAny =>
        LET d == vals[last.dest]
            v == vals[last.src]
        IN /\ d.value_type = v.value_type
           /\ d.prop = v.prop
           /\ d.timestamp = v.timestamp
           /\ d.len = v.len
           /\ v.value_type \notin BufferKinds =>
                 /\ d.data = v.data
                 /\ LogCount(last.log, {"new", "new[]"}) = 0

\* C11 case: a scalar source with a non-zero payload was copied
C11_Witness ==
    /\ CopiedAny
    /\ vals[last.src].value_type = VEHICLE_VALUE_TYPE_INT32
    /\ vals[last.src].data = 1
    /\ vals[last.dest].data = 1
    /\ vals[last.dest].prop = MetaOf(VEHICLE_VALUE_TYPE_INT32).prop

\* the delete[] entries of a call's log
Deletes(log) == SelectSeq(log, LAMBDA x : x[1] = "delete[]")

C12_PreRelease ==
    (Called("copyVehicleProp") /\ last'.del) =>
        LET d == vals[last'.dest]
        IN Deletes(last'.log) =
              IF d.value_type \in BufferKinds /\ d.data # NULL
              THEN << <<"delete[]", d.data>> >>
              ELSE <<>>

\* C12: copyVehicleProp with deleteOldData set frees exactly the buffer the
\* destination owns: one delete[] of its pointer when the destination is of
\* buffer kind with a non-null pointer, and no delete[] at all when it owns
\* no buffer, whatever the bytes of a scalar payload are.
C12_FreesExactlyOwnedBuffer == [][C12_PreRelease]_vars

\* C12 case: copyVehicleProp with deleteOldData set into a destination of
\* scalar kind whose payload bytes are not zero
C12_Witness ==
    /\ last.op = "copyVehicleProp"
    /\ last.del
    /\ Deletes(last.log) # <<>>
    /\ proc = "undefined"

\* record r is a live value of buffer kind
BufferValue(r) == vals[r].st \in LiveSt /\ vals[r].value_type \in BufferKinds

\* the buffer invariant of one value of buffer kind
WellFormed(r) ==
    IF vals[r].data = NULL THEN vals[r].len = 0
    ELSE /\ vals[r].data \in Addr
         /\ heap[vals[r].data].live
         /\ Len(heap[vals[r].data].bytes) = vals[r].len
         /\ \A q \in Rec \ {r} : BufferValue(q) => vals[q].data # vals[r].data

\* C13: in every state that copyVehicleProp and allocVehicleProp reach from
\* well-formed values, the state after a copyVehicleProp that returned
\* NO_MEMORY included, every value of buffer kind has a null pointer only
\* with length 0 and otherwise points to a live buffer of exactly len bytes
\* that no other live value points to.
C13_BufferInvariant ==
    proc = "running" => \A r \in Rec : BufferValue(r) => WellFormed(r)

\* C13 case: a copyVehicleProp of a buffer-kind source returned NO_MEMORY
C13_Witness ==
    /\ mode = "propagate"
    /\ proc = "running"
    /\ last.op = "copyVehicleProp"
    /\ last.ret = NO_MEMORY
    /\ BufferValue(last.dest)

\* the step destroys a value list holder that wraps a List and does not own
\* the elements
BorrowingValueListDestroyedStep ==
    /\ BorrowerDestroyedStep
    /\ IsValueHolder
    /\ holder.mList # NULL

C14_ListReleased ==
    BorrowingValueListDestroyedStep =>
        /\ list'.st = "freed"
        /\ vals' = vals
        /\ heap' = heap
        /\ proc' = "running"

\* C14: destroying a VehiclePropValueListHolder built with deleteInDestructor
\* false releases the List it wraps, leaves every element record and buffer
\* as it was, and touches nothing else.
C14_NonOwningReleasesSequence == [][C14_ListReleased]_vars

\* C14 case: a value list holder that does not own its elements and wraps a
\* List with an element in it was destroyed
C14_Witness ==
    /\ last.op = "decStrong"
    /\ last.del
    /\ IsValueHolder
    /\ holder.st = "destroyed"
    /\ ~holder.flag
    /\ holder.mList # NULL
    /\ \E r \in Rec : vals[r].st = "heap"

\* the step destroys a holder that owns its elements
OwnerDestroyedStep ==
    /\ Called("decStrong")
    /\ holder.st = "live"
    /\ holder'.st = "destroyed"
    /\ holder.flag
    /\ IsValueHolder => holder.mList # NULL

\* the log entries that release an element record
RecordDeletes(log) == SelectSeq(log, LAMBDA x : x[1] \in {"delete", "delete config"})

\* the buffer pointer of element e before the destruction
ElemData(e) == IF IsValueHolder THEN vals[e].data ELSE cfgs[e].data

\* element e has a buffer of its own before the destruction: a value of
\* buffer kind with a non-null pointer, a config with a non-empty string
ElemOwnsBuffer(e) ==
    IF IsValueHolder
    THEN vals[e].value_type \in BufferKinds /\ vals[e].data # NULL
    ELSE cfgs[e].data # NULL /\ cfgs[e].len > 0

C15_Order ==
    OwnerDestroyedStep =>
        LET log == last'.log
            kind == IF IsValueHolder THEN "delete" ELSE "delete config"
        IN \* no record is read after it was freed
           /\ proc' = "running"
           \* every element record is released once, in sequence order
           /\ RecordDeletes(log) = [i \in 1..Len(list.elems) |-> <<kind, list.elems[i]>>]
           \* a buffer is released just before the record of its element
           /\ \A j \in DOMAIN log :
                 log[j][1] = "delete[]" =>
                     /\ j < Len(log)
                     /\ log[j + 1][1] = kind
                     /\ ElemData(log[j + 1][2]) = log[j][2]
           \* the buffer of an element that has one to release is released
           /\ \A i \in DOMAIN list.elems :
                 ElemOwnsBuffer(list.elems[i]) =>
                     \E j \in DOMAIN log : log[j] = <<"delete[]", ElemData(list.elems[i])>>
           \* the sequence goes last
           /\ list'.st = "freed"
           /\ IsValueHolder => log[Len(log)] = <<"delete List", 1>>

\* C15: the destruction of an owning list releases, for each element in
\* sequence order, the element's buffer before the element record, releases
\* the sequence only after every element, and reads no record it has freed.
C15_DestructionOrder == [][C15_Order]_vars

\* C15 case: an owning list of two elements, the second with a buffer, was
\* destroyed
C15_Witness ==
    /\ OwnerDestroyed
    /\ Len(RecordDeletes(last.log)) = 2
    /\ \E j \in DOMAIN last.log : j > 1 /\ last.log[j][1] = "delete[]"
    /\ proc = "running"

C16_StringReleased ==
    (vars' # vars /\ IsConfigHolder) =>
        \A j \in DOMAIN last'.log :
            LET c == last'.log[j][2]
            IN (last'.log[j][1] = "delete config" /\ cfgs[c].data # NULL) =>
                   /\ j > 1
                   /\ last'.log[j - 1] = <<"delete[]", cfgs[c].data>>

\* C16: whenever a config record is released, by its owner after
\* VehiclePropertiesUtil::deleteMembers or by the destructor of an owning
\* VehiclePropertiesHolder, a non-null config_string of any length is
\* released first, just before the record.
C16_ConfigStringReleased == [][C16_StringReleased]_vars

\* C16 case: an owning config list destroyed an element whose config_string
\* was a zero-length allocation, which is still allocated
C16_Witness ==
    /\ IsConfigHolder
    /\ OwnerDestroyed
    /\ \E j \in DOMAIN last.log : last.log[j][1] = "delete config"
    /\ \E a \in Addr : heap[a].live /\ heap[a].bytes = <<>>
    /\ \A c \in Cfg : cfgs[c].st # "heap"

\* the value a deleteMembers call is given has a buffer pointer to release
HasPointer(v) ==
    /\ v # NULL
    /\ vals[v].value_type \in BufferKinds
    /\ vals[v].data # NULL

C17_Frees ==
    Called("deleteMembers") =>
        LET v == last'.dest
        IN \* every field of every record is as before, the pointer included
           /\ vals' = vals
           /\ IF HasPointer(v)
              THEN \* one delete[] of the pointer; it frees a buffer that is
                   \* allocated and is undefined on one that is not
                   /\ last'.log = << <<"delete[]", vals[v].data>> >>
                   /\ IF heap[vals[v].data].live
                      THEN /\ proc' = "running"
                           /\ heap' = [heap EXCEPT ![vals[v].data] = FreeBuf]
                      ELSE proc' = "undefined"
              ELSE \* nothing to free: a null pointer or a scalar
                   /\ last'.log = <<>>
                   /\ heap' = heap
                   /\ proc' = "running"

C17_Again ==
    (/\ Called("deleteMembers")
     /\ last.op = "deleteMembers"
     /\ last'.dest = last.dest
     /\ HasPointer(last.dest))
    => /\ last'.log = last.log
       /\ proc' = "undefined"

\* C17: deleteMembers on a value of buffer kind runs delete[] on its pointer
\* and changes no field of the record, the pointer included; a second
\* deleteMembers on the same record with the pointer not cleared in between
\* runs delete[] on the same, already freed, address; after the caller has
\* set the pointer to NULL the call frees nothing and is harmless.
C17_DeleteMembersKeepsPointer == [][C17_Frees /\ C17_Again]_vars

\* C17 case: deleteMembers was called a second time on a value whose pointer
\* was not cleared, and freed the same address again
C17_Witness ==
    /\ last.op = "deleteMembers"
    /\ HasPointer(last.dest)
    /\ last.log = << <<"delete[]", vals[last.dest].data>> >>
    /\ ~heap[vals[last.dest].data].live
    /\ proc = "undefined"

\* C17 case: deleteMembers was repeated after the caller had set the pointer
\* to NULL
C17_WitnessCleared ==
    /\ last.op = "deleteMembers"
    /\ last.dest # NULL
    /\ vals[last.dest].value_type \in BufferKinds
    /\ vals[last.dest].data = NULL
    /\ vals[last.dest].len > 0
    /\ last.log = <<>>
    /\ proc = "running"

\* the step is an allocVehicleProp whose new vehicle_prop_value_t() failed
RecordSiteFailed ==
    /\ Called("allocVehicleProp")
    /\ last'.dest = NULL

\* the step is a copyVehicleProp, called directly or by allocVehicleProp,
\* whose new uint8_t[len] failed
BufferSiteFailed ==
    /\ Called("copyVehicleProp") \/ (Called("allocVehicleProp") /\ last'.dest # NULL)
    /\ proc' # "undefined"
    /\ vals[last'.src].value_type \in BufferKinds
    /\ vals[last'.src].len > 0
    /\ LogCount(last'.log, {"new[]"}) = 0

\* the failure signal of the function the step called
FailureSignal(op) == IF op = "copyVehicleProp" THEN NO_MEMORY ELSE NULL

C18_Policy ==
    (RecordSiteFailed \/ BufferSiteFailed) =>
        IF mode = "assert"
        THEN proc' = "aborted"
        ELSE proc' = "running" /\ last'.ret = FailureSignal(last'.op)

\* C18: an allocation failure at either site (the buffer in copyVehicleProp,
\* the record in allocVehicleProp) ends the process in the fail-fast build,
\* and in the propagate build returns NO_MEMORY from copyVehicleProp and null
\* from allocVehicleProp with the process still running.
C18_UniformFailurePolicy == [][C18_Policy]_vars

\* C18 case: in the propagate build the record allocation of allocVehicleProp
\* failed and the call returned
C18_Witness ==
    /\ mode = "propagate"
    /\ last.op = "allocVehicleProp"
    /\ last.dest = NULL
    /\ last.ret = NO_MEMORY
    /\ proc = "running"

\* the step is a copyVehicleProp without deleteOldData that ran defined
DefaultCopyStep ==
    /\ Called("copyVehicleProp")
    /\ ~last'.del
    /\ proc' # "undefined"

C19_NothingFreed ==
    DefaultCopyStep =>
        LET dest == last'.dest
        IN \* no delete[]: every buffer allocated before is allocated after,
           \* with its bytes
           /\ LogCount(last'.log, {"delete[]"}) = 0
           /\ \A a \in Addr : heap[a].live => heap'[a] = heap[a]
           \* the destination does not point to its old buffer any more
           /\ \A b \in HeldBy(dest) :
                 heap[b].live =>
                     ~(vals'[dest].value_type \in BufferKinds /\ vals'[dest].data = b)

====
